---- MODULE Spec2Model ----
(***************************************************************************)
(* A model of danudey/apt-parser: the two entry points aptparser.py and     *)
(* apt-mirror.py.  Text is modelled as sequences of one-character strings, *)
(* so that splitting, stripping, folding and lower-casing are computed the *)
(* way the Python code computes them.                                      *)
(***************************************************************************)
EXTENDS Integers, Sequences, FiniteSets, TLC

VARIABLES
    prog,          \* which entry point runs: "aptparser" or "apt_mirror"
    run,           \* number of the current invocation of the program
    pc,            \* control point of the run
    err,           \* the exception that ended the run ("none" while it runs)
    args,          \* the options of the command line
    list_file,     \* lines of the .list file given on the command line
    cache,         \* files present under /var/lib/apt/lists: path -> text
    remote,        \* the HTTP server: url -> response
    deb_lines,     \* result of get_deb_lines
    di,            \* index of the deb line being processed
    ci,            \* index of the component being fetched within that line
    release_data,  \* stanzas of the deb line being processed
    package_data,  \* stanzas of all deb lines processed
    pi,            \* index of the stanza being processed
    pkg,           \* the mapping parsed from the last stanza
    name,          \* the loop variable `name` of the catalog loop
    packages,      \* the catalog: name -> record
    order,         \* insertion order of the catalog's keys (dict order)
    fs,            \* files under the download directory: filename -> file
    dl,            \* names still to be visited by the download loop
    io,            \* log of the I/O operations of this run, in order
    table,         \* rows printed by --print-table
    snapshot,      \* content of the JSON snapshot file
    seen,          \* history: the records the catalog loop has processed
    atStart        \* history: the download directory and snapshot file as the run found them

vars == <<prog, run, pc, err, args, list_file, cache, remote, deb_lines, di, ci,
          release_data, package_data, pi, pkg, name, packages, order, fs, dl,
          io, table, snapshot, seen, atStart>>

-----------------------------------------------------------------------------
(* Python str primitives on sequences of characters.                       *)

NL == <<"\n">>

IsSpace(c) == c \in {" ", "\t", "\n"}

IsDigit(c) == c \in {"0", "1", "2", "3", "4", "5", "6", "7", "8", "9"}

StartsWith(s, p) == Len(s) >= Len(p) /\ SubSeq(s, 1, Len(p)) = p

\* s[i:] with a 1-based i
From(s, i) == SubSeq(s, i, Len(s))

\* str.find, 1-based; 0 when sep does not occur
Find(s, sep) ==
    LET I == {i \in 1..(Len(s) - Len(sep) + 1) : SubSeq(s, i, i + Len(sep) - 1) = sep}
    IN  IF I = {} THEN 0 ELSE CHOOSE i \in I : \A j \in I : i <= j

\* str.rfind, 1-based; 0 when sep does not occur
RFind(s, sep) ==
    LET I == {i \in 1..(Len(s) - Len(sep) + 1) : SubSeq(s, i, i + Len(sep) - 1) = sep}
    IN  IF I = {} THEN 0 ELSE CHOOSE i \in I : \A j \in I : i >= j

RECURSIVE Split(_, _)
\* str.split(sep)
Split(s, sep) ==
    LET i == Find(s, sep)
    IN  IF i = 0 THEN <<s>>
        ELSE <<SubSeq(s, 1, i - 1)>> \o Split(From(s, i + Len(sep)), sep)

RECURSIVE Join(_, _)
\* sep.join(parts)
Join(sep, parts) ==
    IF parts = <<>> THEN <<>>
    ELSE IF Len(parts) = 1 THEN parts[1]
    ELSE parts[1] \o sep \o Join(sep, Tail(parts))

RECURSIVE LStripIn(_, _)
LStripIn(s, cs) ==
    IF s # <<>> /\ s[1] \in cs THEN LStripIn(Tail(s), cs) ELSE s

RECURSIVE RStripIn(_, _)
RStripIn(s, cs) ==
    IF s # <<>> /\ s[Len(s)] \in cs THEN RStripIn(SubSeq(s, 1, Len(s) - 1), cs) ELSE s

\* str.strip("\n")
StripNL(s) == RStripIn(LStripIn(s, {"\n"}), {"\n"})

\* str.strip()
Strip(s) == RStripIn(LStripIn(s, {" ", "\t", "\n"}), {" ", "\t", "\n"})

UpperAlpha == <<"A", "B", "C", "D", "E", "F", "G", "H", "I", "J", "K", "L", "M",
                "N", "O", "P", "Q", "R", "S", "T", "U", "V", "W", "X", "Y", "Z">>
LowerAlpha == <<"a", "b", "c", "d", "e", "f", "g", "h", "i", "j", "k", "l", "m",
                "n", "o", "p", "q", "r", "s", "t", "u", "v", "w", "x", "y", "z">>

LowerChar(c) ==
    IF \E i \in 1..26 : UpperAlpha[i] = c
    THEN LowerAlpha[CHOOSE i \in 1..26 : UpperAlpha[i] = c]
    ELSE c

\* str.lower()
Lower(s) == [i \in 1..Len(s) |-> LowerChar(s[i])]

DigitVal(c) ==
    CASE c = "0" -> 0 [] c = "1" -> 1 [] c = "2" -> 2 [] c = "3" -> 3
      [] c = "4" -> 4 [] c = "5" -> 5 [] c = "6" -> 6 [] c = "7" -> 7
      [] c = "8" -> 8 [] c = "9" -> 9

RECURSIVE DecVal(_)
DecVal(s) == IF s = <<>> THEN 0 ELSE 10 * DecVal(SubSeq(s, 1, Len(s) - 1)) + DigitVal(s[Len(s)])

\* int(v) accepts digits with surrounding whitespace; anything else is a ValueError
IntOk(v) == Strip(v) # <<>> /\ \A i \in 1..Len(Strip(v)) : IsDigit(Strip(v)[i])
IntOf(v) == DecVal(Strip(v))

\* A field value: a str, or the int that "Size" is coerced to.
StrV(s) == [t |-> "str", s |-> s, n |-> 0]
IntV(n) == [t |-> "int", s |-> <<>>, n |-> n]

-----------------------------------------------------------------------------
(* Names the code spells out.                                              *)

S_Size     == <<"S", "i", "z", "e">>
S_package  == <<"p", "a", "c", "k", "a", "g", "e">>
S_version  == <<"v", "e", "r", "s", "i", "o", "n">>
S_size     == <<"s", "i", "z", "e">>
S_filename == <<"f", "i", "l", "e", "n", "a", "m", "e">>
S_uri      == <<"u", "r", "i">>
S_class    == <<"_", "_", "c", "l", "a", "s", "s", "_", "_">>
S_SimpleNamespace == <<"S", "i", "m", "p", "l", "e", "N", "a", "m", "e", "s", "p", "a", "c", "e">>
ColonSpace == <<":", " ">>
UriLine    == <<"\n", "u", "r", "i", ":", " ">>

-----------------------------------------------------------------------------
(* parse_package_metadata                                                  *)

\* number of leading lines that start with a space
RECURSIVE Continuations(_)
Continuations(lines) ==
    IF lines # <<>> /\ StartsWith(lines[1], <<" ">>)
    THEN 1 + Continuations(Tail(lines))
    ELSE 0

\* a fold that keeps the dot of a " ." line
Folded_KeepDot(line) == Strip(line)

\* what one continuation line appends to exp_lines
Folded(line) == IF Strip(line) = <<".">> THEN <<>> ELSE Strip(line)

\* dict item assignment pkg[k] = v
SetItem(d, k, v) == [x \in (DOMAIN d) \cup {k} |-> IF x = k THEN v ELSE d[x]]

RECURSIVE ParseLines(_, _)
ParseLines(lines, d) ==
    IF lines = <<>> THEN [err |-> "none", pkg |-> d]
    ELSE
      LET line == lines[1]
          at   == Find(line, ColonSpace)
      IN  IF at = 0 THEN [err |-> "ValueError", pkg |-> d]
          ELSE
            LET k    == SubSeq(line, 1, at - 1)
                raw  == From(line, at + 2)
                rest == Tail(lines)
                n    == Continuations(rest)
                exp  == <<raw>> \o [i \in 1..n |-> Folded(rest[i])]
            IN  IF k = S_Size /\ ~IntOk(raw) THEN [err |-> "ValueError", pkg |-> d]
                ELSE IF k = S_Size /\ n > 0 THEN [err |-> "TypeError", pkg |-> d]
                ELSE
                  LET v == IF k = S_Size THEN IntV(IntOf(raw))
                           ELSE IF n > 0 THEN StrV(Join(NL, exp))
                           ELSE StrV(raw)
                  IN  ParseLines(From(rest, n + 1), SetItem(d, Lower(k), v))

parse_package_metadata(package) == ParseLines(Split(StripNL(package), NL), <<>>)

-----------------------------------------------------------------------------
(* apt_pkg.version_compare: the Debian version order the catalog loop      *)
(* calls.  The library is not part of the repository; this is the order    *)
(* of epoch, upstream version and revision it implements.                  *)

\* printable ASCII from code 32 on (backslash and backtick are spelled out: no version holds one)
AsciiTable ==
    <<" ", "!", "\"", "#", "$", "%", "&", "'", "(", ")", "*", "+",
      ",", "-", ".", "/", "0", "1", "2", "3", "4", "5", "6", "7",
      "8", "9", ":", ";", "<", "=", ">", "?", "@", "A", "B", "C",
      "D", "E", "F", "G", "H", "I", "J", "K", "L", "M", "N", "O",
      "P", "Q", "R", "S", "T", "U", "V", "W", "X", "Y", "Z", "[",
      "backslash", "]", "^", "_", "backtick", "a", "b", "c", "d", "e", "f", "g",
      "h", "i", "j", "k", "l", "m", "n", "o", "p", "q", "r", "s",
      "t", "u", "v", "w", "x", "y", "z", "{", "|", "}", "~">>

Ascii(c) == 31 + (CHOOSE i \in 1..Len(AsciiTable) : AsciiTable[i] = c)

IsAlpha(c) == (\E i \in 1..26 : UpperAlpha[i] = c) \/ (\E i \in 1..26 : LowerAlpha[i] = c)

VerOrder(c) ==
    IF IsDigit(c) THEN 0
    ELSE IF IsAlpha(c) THEN Ascii(c)
    ELSE IF c = "~" THEN -1
    ELSE Ascii(c) + 256

\* one side of a fragment ran out
FragEnd(l, r) ==
    IF l = <<>> /\ r = <<>> THEN 0
    ELSE IF l = <<>> THEN (IF r[1] = "~" THEN 1 ELSE -1)
    ELSE (IF l[1] = "~" THEN -1 ELSE 1)

RECURSIVE DigitRun(_)
DigitRun(s) == IF s # <<>> /\ IsDigit(s[1]) THEN 1 + DigitRun(Tail(s)) ELSE 0

\* first difference of two digit runs of the same length
RECURSIVE FirstDiff(_, _)
FirstDiff(a, b) ==
    IF a = <<>> THEN 0
    ELSE IF a[1] # b[1] THEN DigitVal(a[1]) - DigitVal(b[1])
    ELSE FirstDiff(Tail(a), Tail(b))

RECURSIVE CmpLoop(_, _)
CmpLoop(l, r) ==
    IF l = <<>> \/ r = <<>> THEN FragEnd(l, r)
    ELSE IF ~IsDigit(l[1]) \/ ~IsDigit(r[1]) THEN
        IF VerOrder(l[1]) # VerOrder(r[1]) THEN VerOrder(l[1]) - VerOrder(r[1])
        ELSE CmpLoop(Tail(l), Tail(r))
    ELSE
        LET lz == LStripIn(l, {"0"})
            rz == LStripIn(r, {"0"})
            ln == DigitRun(lz)
            rn == DigitRun(rz)
            fd == FirstDiff(SubSeq(lz, 1, ln), SubSeq(rz, 1, rn))
        IN  IF ln > rn THEN 1
            ELSE IF ln < rn THEN -1
            ELSE IF fd # 0 THEN fd
            ELSE CmpLoop(From(lz, ln + 1), From(rz, rn + 1))

CmpFragment(a, b) == IF a = <<>> \/ b = <<>> THEN FragEnd(a, b) ELSE CmpLoop(a, b)

\* the epoch, with a zero epoch the same as none
Epoch(v) ==
    LET at == Find(v, <<":">>)
    IN  IF at = 0 THEN <<>> ELSE LStripIn(SubSeq(v, 1, at - 1), {"0"})

AfterEpoch(v) == From(v, Find(v, <<":">>) + 1)

Upstream(v) ==
    LET u  == AfterEpoch(v)
        at == RFind(u, <<"-">>)
    IN  IF at = 0 THEN u ELSE SubSeq(u, 1, at - 1)

\* no revision is treated like revision 0
Revision(v) ==
    LET u  == AfterEpoch(v)
        at == RFind(u, <<"-">>)
    IN  IF at = 0 THEN <<"0">> ELSE From(u, at + 1)

version_compare(a, b) ==
    LET e == CmpFragment(Epoch(a), Epoch(b))
        u == CmpFragment(Upstream(a), Upstream(b))
    IN  IF e # 0 THEN e
        ELSE IF u # 0 THEN u
        ELSE CmpFragment(Revision(a), Revision(b))

-----------------------------------------------------------------------------
(* get_larger_version                                                      *)

\* a SimpleNamespace built from a parsed mapping
Namespace(d) == [kind |-> "ns", f |-> d]

HasAttr(o, k) == o.kind = "ns" /\ k \in DOMAIN o.f

\* a resolver that always takes the record that arrived last
get_larger_version_Newest(pkg1, pkg2) == pkg2

\* a resolver that keeps the existing record on a tie
get_larger_version_KeepTie(pkg1, pkg2) ==
    LET res == version_compare(pkg1.f[S_version].s, pkg2.f[S_version].s)
    IN  IF res >= 0 THEN pkg1 ELSE pkg2

get_larger_version(pkg1, pkg2) ==
    LET res == version_compare(pkg1.f[S_version].s, pkg2.f[S_version].s)
    IN  IF res >= 1 THEN pkg1 ELSE pkg2

-----------------------------------------------------------------------------
(* The catalog loop of main (aptparser.py) and of the module body          *)
(* (apt-mirror.py): one stanza is parsed and stored or compared.           *)

Unbound == [bound |-> FALSE, s |-> <<>>]
Bound(s) == [bound |-> TRUE, s |-> s]

\* The outcome of one iteration on the stanza `package`.
CatalogUpdate(p, nm0, cat, ord, package) ==
    LET r     == parse_package_metadata(package)
        rec   == Namespace(r.pkg)
        has   == HasAttr(rec, S_package)
        \* apt-mirror.py prints the record and goes on with the `name` it has
        nm    == IF has THEN Bound(rec.f[S_package].s) ELSE nm0
        same  == [err |-> "none", pkg |-> r.pkg, name |-> nm, packages |-> cat,
                  order |-> ord, stored |-> FALSE]
    IN  IF r.err # "none" THEN [same EXCEPT !.err = r.err, !.name = nm0]
        ELSE IF ~has /\ p = "aptparser" THEN [same EXCEPT !.err = "AttributeError"]
        ELSE IF ~nm.bound THEN [same EXCEPT !.err = "NameError"]
        ELSE IF nm.s \in DOMAIN cat THEN
            IF ~HasAttr(cat[nm.s], S_version) \/ ~HasAttr(rec, S_version)
            THEN [same EXCEPT !.err = "AttributeError"]
            ELSE [same EXCEPT !.packages = [cat EXCEPT ![nm.s] = get_larger_version(cat[nm.s], rec)],
                              !.stored = TRUE]
        ELSE [same EXCEPT !.packages = SetItem(cat, nm.s, rec),
                          !.order = Append(ord, nm.s),
                          !.stored = TRUE]

envVars  == <<prog, run, args, list_file, cache, remote, atStart>>
lineVars == <<deb_lines, di, ci, release_data, package_data>>
outVars  == <<fs, dl, io, table, snapshot>>

CatalogStep ==
    /\ pc = "stanzas"
    /\ pi <= Len(package_data)
    /\ LET package == package_data[pi]
           o == CatalogUpdate(prog, name, packages, order, package)
       IN  IF package = <<>>
           THEN /\ pi' = pi + 1
                /\ UNCHANGED <<pc, err, pkg, name, packages, order, seen>>
           ELSE /\ pc' = IF o.err = "none" THEN pc ELSE "aborted"
                /\ err' = o.err
                /\ pi' = IF o.err = "none" THEN pi + 1 ELSE pi
                /\ pkg' = IF parse_package_metadata(package).err = "none" THEN o.pkg ELSE pkg
                /\ name' = o.name
                /\ packages' = o.packages
                /\ order' = o.order
                /\ seen' = IF o.stored THEN Append(seen, [name |-> o.name.s, rec |-> Namespace(o.pkg)])
                           ELSE seen
    /\ UNCHANGED <<envVars, lineVars, outVars>>

CatalogDone ==
    /\ pc = "stanzas"
    /\ pi > Len(package_data)
    /\ pc' = "summary"
    /\ UNCHANGED <<err, pi, pkg, name, packages, order, seen>>
    /\ UNCHANGED <<envVars, lineVars, outVars>>

-----------------------------------------------------------------------------
(* Source lines: get_deb_lines, filter_deb_lines, the line grammar.        *)

WS == {" ", "\t", "\n"}

S_deb     == <<"d", "e", "b">>
S_deb_src == <<"d", "e", "b", "-", "s", "r", "c">>
S_http    == <<"h", "t", "t", "p", ":", "/", "/">>
S_https   == <<"h", "t", "t", "p", "s", ":", "/", "/">>
S_dists   == <<"d", "i", "s", "t", "s">>
S_Packages_gz == <<"b", "i", "n", "a", "r", "y", "-", "a", "m", "d", "6", "4", "/", "P", "a", "c", "k", "a", "g", "e", "s", ".", "g", "z">>
S_lists   == <<"/", "v", "a", "r", "/", "l", "i", "b", "/", "a", "p", "t", "/", "l", "i", "s", "t", "s">>
Compressed == {<<".", "g", "z">>, <<".", "x", "z">>, <<".", "l", "z", "m", "a">>, <<".", "b", "z", "2">>}

RECURSIVE FirstSpace(_, _)
\* index of the first whitespace character of s at or after i; 0 when none
FirstSpace(s, i) ==
    IF i > Len(s) THEN 0 ELSE IF s[i] \in WS THEN i ELSE FirstSpace(s, i + 1)

RECURSIVE SplitWSMax(_, _)
\* re.split(r"\s+", s, maxsplit=n)
SplitWSMax(s, n) ==
    LET i == FirstSpace(s, 1)
    IN  IF n = 0 \/ i = 0 THEN <<s>>
        ELSE <<SubSeq(s, 1, i - 1)>> \o SplitWSMax(LStripIn(From(s, i), WS), n - 1)

\* re.split(r"\s+", s)
SplitWS(s) == SplitWSMax(s, Len(s))

RECURSIVE FilterSub(_)
\* SOURCES_LINE_FILTER_PAT.sub("", s): bracketed blocks followed by
\* whitespace, and a comment with the whitespace before it, are removed
FilterSub(s) ==
    IF s = <<>> THEN <<>>
    ELSE
      LET close == Find(s, <<"]">>)
          after == LStripIn(s, WS)
      IN  IF s[1] = "[" /\ close >= 3 /\ close < Len(s) /\ s[close + 1] \in WS
          THEN FilterSub(LStripIn(From(s, close + 1), WS))
          ELSE IF s[1] \in WS /\ after # <<>> /\ after[1] = "#"
          THEN <<>>
          ELSE <<s[1]>> \o FilterSub(Tail(s))

\* re.sub(" ?#.*", "", s)
CutComment(s) ==
    LET at == Find(s, <<"#">>)
    IN  IF at = 0 THEN s
        ELSE IF at > 1 /\ s[at - 1] = " " THEN SubSeq(s, 1, at - 2)
        ELSE SubSeq(s, 1, at - 1)

\* filter_deb_lines of apt-mirror.py; <<>> stands for None and for ""
filter_deb_lines(line) ==
    IF StartsWith(line, S_deb)
    THEN LET at == Find(line, <<"#">>)
         IN  IF at = 0 THEN Strip(line) ELSE Strip(SubSeq(line, 1, at - 1))
    ELSE <<>>

\* a resolver that does not know deb-src lines
deb_lines_of_aptparser_KeepSrc(lines) ==
    LET filtered == [i \in 1..Len(lines) |-> Strip(FilterSub(lines[i]))]
        Keep(l)  == StartsWith(l, S_deb)
    IN  SelectSeq(filtered, Keep)

\* the loop of get_deb_lines in aptparser.py over the lines read
deb_lines_of_aptparser(lines) ==
    LET filtered == [i \in 1..Len(lines) |-> Strip(FilterSub(lines[i]))]
        Keep(l)  == ~StartsWith(l, S_deb_src) /\ StartsWith(l, S_deb)
    IN  SelectSeq(filtered, Keep)

\* the loop of get_deb_lines in apt-mirror.py over the lines read
deb_lines_of_apt_mirror(lines) ==
    LET filtered == [i \in 1..Len(lines) |-> filter_deb_lines(lines[i])]
        Keep(l)  == l # <<>>
    IN  SelectSeq(filtered, Keep)

get_deb_lines(p, lines) ==
    IF p = "aptparser" THEN deb_lines_of_aptparser(lines) ELSE deb_lines_of_apt_mirror(lines)

IsBracketed(tok) == Len(tok) >= 3 /\ tok[1] = "[" /\ tok[Len(tok)] = "]"
IsUrl(tok) == \/ StartsWith(tok, S_http)  /\ Len(tok) > Len(S_http)
              \/ StartsWith(tok, S_https) /\ Len(tok) > Len(S_https)

NoLine == [status |-> "skip", err |-> "none", type |-> <<>>, url |-> <<>>,
           release |-> <<>>, components |-> <<>>]

\* SOURCES_LINE_PAT.match on a line without comment: the type, an optional
\* bracketed block, the url, the release and the components
MatchSourceLine(line) ==
    LET tok == SplitWS(line)
        u   == IF Len(tok) >= 3 /\ IsBracketed(tok[2]) /\ IsUrl(tok[3]) THEN 3 ELSE 2
    IN  IF /\ tok[1] \in {S_deb, S_deb_src}
           /\ Len(tok) >= u + 2
           /\ IsUrl(tok[u])
           /\ tok[u + 2] # <<>>
        THEN [NoLine EXCEPT !.status = "ok", !.type = tok[1], !.url = tok[u],
                            !.release = tok[u + 1],
                            !.components = SubSeq(tok, u + 2, Len(tok))]
        ELSE [NoLine EXCEPT !.err = "DebSrcLineUnparseable"]

\* a main that does not catch DebSrcLineUnparseable
SourceEntry_aptparser_Uncaught(deb_line) ==
    LET m == MatchSourceLine(CutComment(deb_line))
    IN  IF m.status = "ok" /\ m.type = S_deb_src
        THEN [NoLine EXCEPT !.err = "DebSrcNotImplemented"]
        ELSE IF m.status = "skip" THEN [m EXCEPT !.status = "fatal"]
        ELSE m

\* the head of get_packages_from_deb_line in aptparser.py; main skips a
\* line that raises DebSrcLineUnparseable or DebSrcNotImplemented
SourceEntry_aptparser(deb_line) ==
    LET m == MatchSourceLine(CutComment(deb_line))
    IN  IF m.status = "ok" /\ m.type = S_deb_src
        THEN [NoLine EXCEPT !.err = "DebSrcNotImplemented"]
        ELSE m

\* the head of get_packages_from_deb_line in apt-mirror.py: four fields are
\* unpacked, and nothing catches the ValueError when there are fewer
SourceEntry_apt_mirror(deb_line) ==
    LET tok == SplitWSMax(deb_line, 3)
    IN  IF Len(tok) # 4 THEN [NoLine EXCEPT !.status = "fatal", !.err = "ValueError"]
        ELSE [NoLine EXCEPT !.status = "ok", !.type = tok[1], !.url = tok[2],
                            !.release = tok[3], !.components = SplitWS(tok[4])]

SourceEntry(p, deb_line) ==
    IF p = "aptparser" THEN SourceEntry_aptparser(deb_line) ELSE SourceEntry_apt_mirror(deb_line)

-----------------------------------------------------------------------------
(* The index of one component: cache path, cache read or fetch, stanzas.   *)

\* os.path.join(a, b)
Join2(a, b) ==
    IF StartsWith(b, <<"/">>) THEN b
    ELSE IF a = <<>> \/ a[Len(a)] = "/" THEN a \o b
    ELSE a \o <<"/">> \o b

RECURSIVE PathJoin(_)
PathJoin(parts) ==
    IF Len(parts) = 1 THEN parts[1]
    ELSE PathJoin(<<Join2(parts[1], parts[2])>> \o SubSeq(parts, 3, Len(parts)))

\* str.replace("/", "_")
Underscored(s) == [i \in 1..Len(s) |-> IF s[i] = "/" THEN "_" ELSE s[i]]

\* URL_MATCHER.match(s): the scheme, as much as possible, a compression suffix
UrlMatch(s) ==
    LET n == IF StartsWith(s, S_http) THEN Len(S_http)
             ELSE IF StartsWith(s, S_https) THEN Len(S_https) ELSE 0
        I == {i \in (n + 1)..Len(s) : \E x \in Compressed : StartsWith(From(s, i), x)}
    IN  IF n = 0 \/ I = {} THEN [ok |-> FALSE, g1 |-> <<>>]
        ELSE [ok |-> TRUE, g1 |-> SubSeq(s, n + 1, (CHOOSE i \in I : \A j \in I : i >= j) - 1)]

PackagesFile(e, component) ==
    PathJoin(<<e.url, S_dists, e.release, component, S_Packages_gz>>)

LocalFilePath(packages_file) ==
    PathJoin(<<S_lists, Underscored(UrlMatch(packages_file).g1)>>)

\* requests.get(url): what the server answers (404 and a three-byte page
\* for a URL it does not know)
Response(url) ==
    IF url \in DOMAIN remote THEN remote[url]
    ELSE [status |-> 404, gz |-> FALSE, text |-> <<>>, length |-> TRUE, whole |-> TRUE,
          bytes |-> 3]

\* the stanzas of an index text, each with the uri line appended
ComponentData(data, url) ==
    LET ds   == Split(StripNL(data), <<"\n", "\n">>)
        Keep(d) == d # <<>>
        kept == SelectSeq(ds, Keep)
    IN  [i \in 1..Len(kept) |-> StripNL(kept[i]) \o UriLine \o url]

\* an entry of the I/O log
CacheRead(path) == [op |-> "cache", at |-> path]
HttpGet(url)    == [op |-> "GET", at |-> url]

\* a fetcher that goes on with no stanzas when the server answers non-200
ComponentFetch_Lenient(e, component) ==
    LET packages_file == PackagesFile(e, component)
        local == LocalFilePath(packages_file)
        resp  == Response(packages_file)
    IN  IF ~UrlMatch(packages_file).ok
        THEN [err |-> "AttributeError", ops |-> <<>>, data |-> <<>>]
        ELSE IF local \in DOMAIN cache
        THEN [err |-> "none", ops |-> <<CacheRead(local)>>,
              data |-> ComponentData(cache[local], e.url)]
        ELSE IF resp.status # 200
        THEN [err |-> "none", ops |-> <<HttpGet(packages_file)>>, data |-> <<>>]
        ELSE IF ~resp.gz
        THEN [err |-> "BadGzipFile", ops |-> <<HttpGet(packages_file)>>, data |-> <<>>]
        ELSE [err |-> "none", ops |-> <<HttpGet(packages_file)>>,
              data |-> ComponentData(resp.text, e.url)]

\* a fetcher that asks the server although the cache file exists
ComponentFetch_NoCache(e, component) ==
    LET packages_file == PackagesFile(e, component)
        resp  == Response(packages_file)
    IN  IF ~UrlMatch(packages_file).ok
        THEN [err |-> "AttributeError", ops |-> <<>>, data |-> <<>>]
        ELSE IF resp.status # 200
        THEN [err |-> "ValueError", ops |-> <<HttpGet(packages_file)>>, data |-> <<>>]
        ELSE IF ~resp.gz
        THEN [err |-> "BadGzipFile", ops |-> <<HttpGet(packages_file)>>, data |-> <<>>]
        ELSE [err |-> "none", ops |-> <<HttpGet(packages_file)>>,
              data |-> ComponentData(resp.text, e.url)]

\* one iteration of the loop over source_components
ComponentFetch(e, component) ==
    LET packages_file == PackagesFile(e, component)
        local == LocalFilePath(packages_file)
        resp  == Response(packages_file)
    IN  IF ~UrlMatch(packages_file).ok
        THEN [err |-> "AttributeError", ops |-> <<>>, data |-> <<>>]
        ELSE IF local \in DOMAIN cache
        THEN [err |-> "none", ops |-> <<CacheRead(local)>>,
              data |-> ComponentData(cache[local], e.url)]
        ELSE IF resp.status # 200
        THEN [err |-> "ValueError", ops |-> <<HttpGet(packages_file)>>, data |-> <<>>]
        ELSE IF ~resp.gz
        THEN [err |-> "BadGzipFile", ops |-> <<HttpGet(packages_file)>>, data |-> <<>>]
        ELSE [err |-> "none", ops |-> <<HttpGet(packages_file)>>,
              data |-> ComponentData(resp.text, e.url)]

-----------------------------------------------------------------------------
(* The source phase: get_deb_lines, then the loop over the deb lines.      *)

catVars == <<pi, pkg, name, packages, order, seen>>

\* get_deb_lines; aptparser.py exits with status 255 when no line is left
GetDebLines ==
    /\ pc = "start"
    /\ ~args.input_file
    /\ LET ls == get_deb_lines(prog, list_file)
       IN  IF prog = "aptparser" /\ ls = <<>>
           THEN /\ pc' = "aborted"
                /\ err' = "InvalidListException"
                /\ UNCHANGED deb_lines
           ELSE /\ pc' = "lines"
                /\ deb_lines' = ls
                /\ UNCHANGED err
    /\ di' = 1
    /\ ci' = 1
    /\ UNCHANGED <<envVars, release_data, package_data, catVars, outVars>>

\* a line that raises DebSrcLineUnparseable or DebSrcNotImplemented is skipped
SkipDebLine ==
    /\ pc = "lines"
    /\ di <= Len(deb_lines)
    /\ SourceEntry(prog, deb_lines[di]).status = "skip"
    /\ di' = di + 1
    /\ UNCHANGED <<pc, err, envVars, deb_lines, ci, release_data, package_data,
                   catVars, outVars>>

\* any other exception of get_packages_from_deb_line ends the run
FailDebLine ==
    /\ pc = "lines"
    /\ di <= Len(deb_lines)
    /\ SourceEntry(prog, deb_lines[di]).status = "fatal"
    /\ pc' = "aborted"
    /\ err' = SourceEntry(prog, deb_lines[di]).err
    /\ UNCHANGED <<envVars, lineVars, catVars, outVars>>

\* one iteration of the loop over the components of the current line
FetchComponent ==
    /\ pc = "lines"
    /\ di <= Len(deb_lines)
    /\ LET e == SourceEntry(prog, deb_lines[di])
       IN  /\ e.status = "ok"
           /\ ci <= Len(e.components)
           /\ LET o == ComponentFetch(e, e.components[ci])
              IN  /\ io' = io \o [i \in 1..Len(o.ops) |->
                                    [op |-> o.ops[i].op, at |-> o.ops[i].at, line |-> deb_lines[di]]]
                  /\ IF o.err = "none"
                     THEN /\ release_data' = release_data \o o.data
                          /\ ci' = ci + 1
                          /\ UNCHANGED <<pc, err>>
                     ELSE /\ pc' = "aborted"
                          /\ err' = o.err
                          /\ UNCHANGED <<release_data, ci>>
    /\ UNCHANGED <<envVars, deb_lines, di, package_data, catVars, fs, dl, table, snapshot>>

\* get_packages_from_deb_line returns; main extends package_data
DebLineDone ==
    /\ pc = "lines"
    /\ di <= Len(deb_lines)
    /\ LET e == SourceEntry(prog, deb_lines[di])
       IN  /\ e.status = "ok"
           /\ ci > Len(e.components)
    /\ package_data' = package_data \o release_data
    /\ release_data' = <<>>
    /\ ci' = 1
    /\ di' = di + 1
    /\ UNCHANGED <<pc, err, envVars, deb_lines, catVars, outVars>>

LinesDone ==
    /\ pc = "lines"
    /\ di > Len(deb_lines)
    /\ pc' = "stanzas"
    /\ pi' = 1
    /\ UNCHANGED <<err, envVars, lineVars, pkg, name, packages, order, seen, outVars>>

-----------------------------------------------------------------------------
(* After the catalog: the totals, the download loop, the table, the        *)
(* snapshot.                                                               *)

\* the file of --output-file / --input-file: absent, empty (argparse has
\* opened it for writing) or holding a JSON object
EmptySnapshot == [state |-> "empty", order |-> <<>>, data |-> <<>>]

\* json.load: every JSON object becomes a plain dict
Loaded(s) == [n \in DOMAIN s.data |-> [kind |-> "dict", f |-> s.data[n]]]

\* main with --input-file: the catalog is what json.load returns
LoadSnapshot ==
    /\ pc = "start"
    /\ args.input_file
    /\ IF snapshot.state = "json"
       THEN /\ packages' = Loaded(snapshot)
            /\ order' = snapshot.order
            /\ pc' = "summary"
            /\ UNCHANGED err
       ELSE /\ pc' = "aborted"
            /\ err' = IF snapshot.state = "absent" THEN "SystemExit" ELSE "JSONDecodeError"
            /\ UNCHANGED <<packages, order>>
    /\ UNCHANGED <<envVars, lineVars, pi, pkg, name, seen, outVars>>

\* pkg_len, ver_len, sizes and their sum: the exception they raise, if any
SummaryErr(p, cat, ord) ==
    LET Lacks(k) == \E i \in 1..Len(ord) : ~HasAttr(cat[ord[i]], k)
    IN  IF p = "aptparser" /\ ord = <<>> THEN "ValueError"
        ELSE IF Lacks(S_package) \/ Lacks(S_version) \/ Lacks(S_size) THEN "AttributeError"
        ELSE IF \E i \in 1..Len(ord) : cat[ord[i]].f[S_size].t # "int" THEN "TypeError"
        ELSE "none"

\* Python's order on str
RECURSIVE StrLess(_, _)
StrLess(a, b) ==
    IF b = <<>> THEN FALSE
    ELSE IF a = <<>> THEN TRUE
    ELSE IF Head(a) = Head(b) THEN StrLess(Tail(a), Tail(b))
    ELSE Ascii(Head(a)) < Ascii(Head(b))

\* sorted(keys)
RECURSIVE Sorted(_)
Sorted(S) ==
    IF S = {} THEN <<>>
    ELSE LET m == CHOOSE x \in S : \A y \in S \ {x} : StrLess(x, y)
         IN  <<m>> \o Sorted(S \ {m})

\* the order in which the download loop visits the catalog
DownloadOrder(p, cat, ord) == IF p = "aptparser" THEN Sorted(DOMAIN cat) ELSE ord

Summary ==
    /\ pc = "summary"
    /\ LET e == SummaryErr(prog, packages, order)
       IN  IF e # "none"
           THEN /\ pc' = "aborted"
                /\ err' = e
                /\ UNCHANGED dl
           ELSE /\ pc' = IF args.download THEN "download" ELSE "table"
                /\ dl' = IF args.download THEN DownloadOrder(prog, packages, order) ELSE dl
                /\ UNCHANGED err
    /\ UNCHANGED <<envVars, lineVars, catVars, fs, io, table, snapshot>>

S_slash == <<"/">>

\* args.download (a directory the user names) and output_dir
OutputDir(p) == IF p = "aptparser" THEN <<"o", "u", "t">> ELSE <<"/", "t", "m", "p", "/", "a", "p", "t", "-", "d", "o", "w", "n", "l", "o", "a", "d">>

Url(package)       == package.f[S_uri].s \o S_slash \o package.f[S_filename].s
Target(p, package) == OutputDir(p) \o S_slash \o package.f[S_filename].s

\* a loop that requests every package, whatever the target holds
AlreadyDownloaded_Never(files, target, package) == FALSE

\* os.path.isfile(target) and os.stat(target).st_size == package.size
AlreadyDownloaded(files, target, package) ==
    /\ target \in DOMAIN files
    /\ package.f[S_size].t = "int"
    /\ files[target].size = package.f[S_size].n

\* a request of the download loop
Download(url) == [op |-> "GET", at |-> url, line |-> <<>>]

\* the numbers of bytes the chunks of a response can add up to
Received(resp) == IF resp.whole THEN {resp.bytes} ELSE 0..(resp.bytes - 1)

\* a file: its size and the status of the response whose body it holds
\* (0 for a file no response wrote)
File(size, status) == [size |-> size, status |-> status]

\* open(target, "wb"), int(content-length), the chunks written
Fetched(files, target, resp, got) ==
    IF ~resp.length
    THEN [err |-> "TypeError", fs |-> SetItem(files, target, File(0, resp.status))]
    ELSE IF ~resp.whole
    THEN [err |-> "ChunkedEncodingError", fs |-> SetItem(files, target, File(got, resp.status))]
    ELSE [err |-> "none", fs |-> SetItem(files, target, File(got, resp.status))]

\* one iteration of the download loop
DownloadStep ==
    /\ pc = "download"
    /\ dl # <<>>
    /\ LET package == packages[Head(dl)]
       IN  IF ~HasAttr(package, S_uri) \/ ~HasAttr(package, S_filename)
           THEN /\ pc' = "aborted"
                /\ err' = "AttributeError"
                /\ UNCHANGED <<dl, fs, io>>
           ELSE IF AlreadyDownloaded(fs, Target(prog, package), package)
           THEN /\ dl' = Tail(dl)
                /\ UNCHANGED <<pc, err, fs, io>>
           ELSE \E got \in Received(Response(Url(package))) :
                   LET o == Fetched(fs, Target(prog, package), Response(Url(package)), got)
                   IN  /\ io' = Append(io, Download(Url(package)))
                       /\ fs' = o.fs
                       /\ err' = o.err
                       /\ pc' = IF o.err = "none" THEN pc ELSE "aborted"
                       /\ dl' = IF o.err = "none" THEN Tail(dl) ELSE dl
    /\ UNCHANGED <<envVars, lineVars, catVars, table, snapshot>>

\* the loop is over; apt-mirror.py ends here
DownloadDone ==
    /\ pc = "download"
    /\ dl = <<>>
    /\ pc' = IF prog = "apt_mirror" THEN "done" ELSE "table"
    /\ UNCHANGED <<err, envVars, lineVars, catVars, outVars>>

\* a row of the table, and a line of the url file
Row(package) == [package |-> package.f[S_package], version |-> package.f[S_version],
                 size |-> package.f[S_size]]
UrlLine(n, package) == [name |-> n, url |-> Url(package)]

\* the block of --print-table: the table is printed after the last row
PrintTable ==
    /\ pc = "table"
    /\ IF ~args.print_table
       THEN /\ pc' = "export"
            /\ UNCHANGED <<err, table>>
       ELSE LET Bad(i) == ~HasAttr(packages[order[i]], S_filename)
                bad    == {i \in 1..Len(order) : Bad(i)}
                stop   == IF args.url_file /\ bad # {}
                          THEN CHOOSE i \in bad : \A j \in bad : i <= j
                          ELSE Len(order) + 1
                urls   == IF args.url_file
                          THEN [i \in 1..(stop - 1) |-> UrlLine(order[i], packages[order[i]])]
                          ELSE table.urls
                rows   == [i \in 1..Len(order) |-> Row(packages[order[i]])]
            IN  IF stop <= Len(order)
                THEN /\ pc' = "aborted"
                     /\ err' = "AttributeError"
                     /\ table' = [table EXCEPT !.urls = urls]
                ELSE /\ pc' = "export"
                     /\ table' = [printed |-> rows, urls |-> urls]
                     /\ UNCHANGED err
    /\ UNCHANGED <<envVars, lineVars, catVars, fs, dl, io, snapshot>>

\* NamespaceEncoder.default: the namespace's own dict, with one more key
Encoded(o) == IF o.kind = "ns" THEN SetItem(o.f, S_class, StrV(S_SimpleNamespace)) ELSE o.f

\* json.dump(packages, args.output_file, cls=NamespaceEncoder)
Export ==
    /\ pc = "export"
    /\ pc' = "done"
    /\ IF args.output_file
       THEN /\ snapshot' = [state |-> "json", order |-> order,
                            data |-> [n \in DOMAIN packages |-> Encoded(packages[n])]]
            /\ packages' = [n \in DOMAIN packages |->
                              [kind |-> packages[n].kind, f |-> Encoded(packages[n])]]
       ELSE UNCHANGED <<snapshot, packages>>
    /\ UNCHANGED <<err, envVars, lineVars, pi, pkg, name, order, seen, fs, dl, io, table>>

\* no option given; apt-mirror.py has none and always downloads (fetch = True)
NoArgs(p) == [download |-> p = "apt_mirror", print_table |-> FALSE, url_file |-> FALSE,
              output_file |-> FALSE, input_file |-> FALSE]

NoSnapshot == [state |-> "absent", order |-> <<>>, data |-> <<>>]

\* the command lines: apt-mirror.py takes no option; the two snapshot
\* options of aptparser.py name one file, and a run names it once
ArgsOf(p) ==
    IF p = "apt_mirror" THEN {NoArgs(p)}
    ELSE {a \in [download : BOOLEAN, print_table : BOOLEAN, url_file : BOOLEAN,
                 output_file : BOOLEAN, input_file : BOOLEAN] :
            ~(a.input_file /\ a.output_file)}

\* argparse opens the files of --output-file and --url-file for writing
Opened(a, s) == IF a.output_file THEN EmptySnapshot ELSE s

NoTable == [printed |-> <<>>, urls |-> <<>>]

\* the number of times the program is run
MaxRuns == 2

\* the program is run again on the same machine
Restart ==
    /\ pc \in {"done", "aborted"}
    /\ run < MaxRuns
    /\ run' = run + 1
    /\ \E a \in ArgsOf(prog) :
          /\ args' = a
          /\ snapshot' = Opened(a, snapshot)
          /\ table' = [printed |-> <<>>, urls |-> IF a.url_file THEN <<>> ELSE table.urls]
          /\ atStart' = [fs |-> fs, snapshot |-> Opened(a, snapshot)]
    /\ pc' = "start"
    /\ err' = "none"
    /\ deb_lines' = <<>>
    /\ di' = 1
    /\ ci' = 1
    /\ release_data' = <<>>
    /\ package_data' = <<>>
    /\ pi' = 1
    /\ pkg' = <<>>
    /\ name' = Unbound
    /\ packages' = <<>>
    /\ order' = <<>>
    /\ seen' = <<>>
    /\ dl' = <<>>
    /\ io' = <<>>
    /\ UNCHANGED <<prog, list_file, cache, remote, fs>>

-----------------------------------------------------------------------------
(* Texts the specifications draw their inputs from.                        *)

Progs == {"aptparser", "apt_mirror"}

\* "http://h"
U_h == <<"h", "t", "t", "p", ":", "/", "/", "h">>
\* "deb http://h r m"
D_one == <<"d", "e", "b", " ", "h", "t", "t", "p", ":", "/", "/", "h", " ", "r", " ", "m">>

\* "Package: a"
L_PkgA == <<"P", "a", "c", "k", "a", "g", "e", ":", " ", "a">>
\* "Version: 1"
L_Ver1 == <<"V", "e", "r", "s", "i", "o", "n", ":", " ", "1">>
\* "Description: s"
L_Desc == <<"D", "e", "s", "c", "r", "i", "p", "t", "i", "o", "n", ":", " ", "s">>
\* "Size: 5"
L_Size5 == <<"S", "i", "z", "e", ":", " ", "5">>
\* " a"
L_ContA == <<" ", "a">>
\* " ."
L_ContDot == <<" ", ".">>
\* " b"
L_ContB == <<" ", "b">>
\* "bad"
L_Bad == <<"b", "a", "d">>

RECURSIVE SeqsUpTo(_, _)
\* the sequences over S of length at most n
SeqsUpTo(S, n) ==
    IF n = 0 THEN {<<>>}
    ELSE LET shorter == SeqsUpTo(S, n - 1)
         IN  shorter \cup {Append(q, x) : q \in shorter, x \in S}

\* what get_packages_from_deb_line makes of one stanza of an index at `url`
WithUri(d, url) == StripNL(d) \o UriLine \o url

-----------------------------------------------------------------------------
(* SpecParse: the catalog loop on one stanza made of up to MaxStanzaLines  *)
(* lines, as it stands after the deb line "deb http://h r m" was fetched.  *)

MaxStanzaLines == 4

StanzaLines == {L_PkgA, L_Desc, L_Size5, L_ContA, L_ContDot, L_ContB, L_Bad}

InitCommon ==
    /\ prog \in Progs
    /\ run = 1
    /\ err = "none"
    /\ pkg = <<>>
    /\ name = Unbound
    /\ packages = <<>>
    /\ order = <<>>
    /\ dl = <<>>
    /\ table = NoTable
    /\ seen = <<>>

InitParse ==
    /\ InitCommon
    /\ pc = "stanzas"
    /\ list_file = <<D_one>>
    /\ cache = <<>>
    /\ remote = <<>>
    /\ deb_lines = <<D_one>>
    /\ di = 2
    /\ ci = 1
    /\ release_data = <<>>
    /\ \E ls \in SeqsUpTo(StanzaLines, MaxStanzaLines) \ {<<>>} :
          package_data = <<WithUri(Join(NL, ls), U_h)>>
    /\ pi = 1
    /\ args = NoArgs(prog)
    /\ fs = <<>>
    /\ io = <<>>
    /\ snapshot = NoSnapshot
    /\ atStart = [fs |-> fs, snapshot |-> snapshot]

NextParse == CatalogStep \/ CatalogDone

SpecParse == InitParse /\ [][NextParse]_vars

-----------------------------------------------------------------------------
(* Claims about parse_package_metadata, checked under SpecParse.           *)

\* the lines of the one stanza SpecParse parses
TheLines == Split(StripNL(package_data[1]), NL)

\* the stanza was parsed without an exception
Parsed == pkg # <<>>

IsHeader(i) == i = 1 \/ ~StartsWith(TheLines[i], <<" ">>)
KeyOf(i)    == SubSeq(TheLines[i], 1, Find(TheLines[i], ColonSpace) - 1)
ValueOf(i)  == From(TheLines[i], Find(TheLines[i], ColonSpace) + 2)
\* the continuation lines of header i: the lines after it up to the next header
BlockOf(i)  == {j \in (i + 1)..Len(TheLines) : \A m \in (i + 1)..j : ~IsHeader(m)}
\* header i is the last one with its key
LastOfKey(i) == \A j \in (i + 1)..Len(TheLines) : IsHeader(j) => Lower(KeyOf(j)) # Lower(KeyOf(i))
\* what a continuation line contributes
PieceOf(j) == IF Strip(TheLines[j]) = <<".">> THEN <<>> ELSE Strip(TheLines[j])
ContinuationPieces(i) == [m \in 1..Cardinality(BlockOf(i)) |-> PieceOf(i + m)]

\* "Description: s", " a", " .", " b" and the injected uri line
ExampleStanza == WithUri(Join(NL, <<L_Desc, L_ContA, L_ContDot, L_ContB>>), U_h)
\* "description"
S_description == <<"d", "e", "s", "c", "r", "i", "p", "t", "i", "o", "n">>
\* "a\n\nb"
V_FoldedOnly == <<"a", "\n", "\n", "b">>
\* "s\na\n\nb"
V_FoldedWithHeader == <<"s", "\n", "a", "\n", "\n", "b">>

\* C3 as stated: the folded value of a field is the newline-join of what its
\* continuation lines contribute (the example gives "a\n\nb"), and the line
\* after the last continuation is parsed as a new field.
C3_AsStated ==
    Parsed =>
      /\ package_data[1] = ExampleStanza => pkg[S_description] = StrV(V_FoldedOnly)
      /\ \A i \in 1..Len(TheLines) :
            (IsHeader(i) /\ LastOfKey(i) /\ BlockOf(i) # {} /\ KeyOf(i) # S_Size) =>
               /\ Lower(KeyOf(i)) \in DOMAIN pkg
               /\ pkg[Lower(KeyOf(i))] = StrV(Join(NL, ContinuationPieces(i)))

\* C3 amended: the value of a folded field (other than Size) is the header
\* line's own value followed by what each continuation line contributes, a
\* line that is "." after stripping contributing the empty string and every
\* other its stripped text, all joined by newlines; "Description: s", " a",
\* " .", " b" gives "s\na\n\nb"; every header line, also the one after the
\* last continuation, becomes a field of its own.
C3_Folding ==
    Parsed =>
      /\ package_data[1] = ExampleStanza =>
            /\ pkg[S_description] = StrV(V_FoldedWithHeader)
            /\ pkg[S_uri] = StrV(U_h)
      /\ \A i \in 1..Len(TheLines) :
            (IsHeader(i) /\ LastOfKey(i) /\ KeyOf(i) # S_Size) =>
               /\ Lower(KeyOf(i)) \in DOMAIN pkg
               /\ pkg[Lower(KeyOf(i))] =
                     StrV(Join(NL, <<ValueOf(i)>> \o ContinuationPieces(i)))
      /\ DOMAIN pkg = {Lower(KeyOf(i)) : i \in {j \in 1..Len(TheLines) : IsHeader(j)}}

\* the example stanza has been parsed
C3_Witness == Parsed /\ package_data[1] = ExampleStanza /\ S_description \in DOMAIN pkg

-----------------------------------------------------------------------------
(* SpecResolve: the catalog loop on up to MaxStanzas stanzas of the index  *)
(* fetched for "deb http://h r m".                                         *)

MaxStanzas == 3

\* "Package: a\nVersion: 1.0\nFilename: f1"
R_a10 == <<"P", "a", "c", "k", "a", "g", "e", ":", " ", "a", "\n", "V", "e", "r", "s", "i", "o", "n", ":", " ", "1", ".", "0", "\n", "F", "i", "l", "e", "n", "a", "m", "e", ":", " ", "f", "1">>
\* "Package: a\nVersion: 1.0\nFilename: f2"
R_a10other == <<"P", "a", "c", "k", "a", "g", "e", ":", " ", "a", "\n", "V", "e", "r", "s", "i", "o", "n", ":", " ", "1", ".", "0", "\n", "F", "i", "l", "e", "n", "a", "m", "e", ":", " ", "f", "2">>
\* "Package: a\nVersion: 1.00\nFilename: f3"
R_a100 == <<"P", "a", "c", "k", "a", "g", "e", ":", " ", "a", "\n", "V", "e", "r", "s", "i", "o", "n", ":", " ", "1", ".", "0", "0", "\n", "F", "i", "l", "e", "n", "a", "m", "e", ":", " ", "f", "3">>
\* "Package: a\nVersion: 2\nFilename: f4"
R_a2 == <<"P", "a", "c", "k", "a", "g", "e", ":", " ", "a", "\n", "V", "e", "r", "s", "i", "o", "n", ":", " ", "2", "\n", "F", "i", "l", "e", "n", "a", "m", "e", ":", " ", "f", "4">>
\* "Package: b\nVersion: 1.0~rc\nFilename: f5"
R_b == <<"P", "a", "c", "k", "a", "g", "e", ":", " ", "b", "\n", "V", "e", "r", "s", "i", "o", "n", ":", " ", "1", ".", "0", "~", "r", "c", "\n", "F", "i", "l", "e", "n", "a", "m", "e", ":", " ", "f", "5">>
\* "Version: 3\nFilename: f6"
R_noname == <<"V", "e", "r", "s", "i", "o", "n", ":", " ", "3", "\n", "F", "i", "l", "e", "n", "a", "m", "e", ":", " ", "f", "6">>
\* "Package: a\nFilename: f7"
R_noversion == <<"P", "a", "c", "k", "a", "g", "e", ":", " ", "a", "\n", "F", "i", "l", "e", "n", "a", "m", "e", ":", " ", "f", "7">>

ResolveStanzas == {R_a10, R_a10other, R_a100, R_a2, R_b, R_noname, R_noversion}

InitResolve ==
    /\ InitCommon
    /\ pc = "stanzas"
    /\ list_file = <<D_one>>
    /\ cache = <<>>
    /\ remote = <<>>
    /\ deb_lines = <<D_one>>
    /\ di = 2
    /\ ci = 1
    /\ release_data = <<>>
    /\ \E ds \in SeqsUpTo(ResolveStanzas, MaxStanzas) \ {<<>>} :
          package_data = [i \in 1..Len(ds) |-> WithUri(ds[i], U_h)]
    /\ pi = 1
    /\ args = NoArgs(prog)
    /\ fs = <<>>
    /\ io = <<>>
    /\ snapshot = NoSnapshot
    /\ atStart = [fs |-> fs, snapshot |-> snapshot]

NextResolve == CatalogStep \/ CatalogDone

SpecResolve == InitResolve /\ [][NextResolve]_vars

-----------------------------------------------------------------------------
(* Claims about the catalog, checked under SpecResolve.                    *)

\* every stanza processed so far had a package name and a version
AllNamed == \A i \in 1..Len(seen) :
               /\ S_package \in DOMAIN seen[i].rec.f
               /\ S_version \in DOMAIN seen[i].rec.f

SeenNames == {seen[i].name : i \in 1..Len(seen)}
VersionOf(rec) == rec.f[S_version].s
\* the positions in the history of the records named n
Occurrences(n) == {i \in 1..Len(seen) : seen[i].name = n}
\* the positions of the records named n that no other record named n exceeds
Greatest(n) == {i \in Occurrences(n) : \A j \in Occurrences(n) :
                   version_compare(VersionOf(seen[i].rec), VersionOf(seen[j].rec)) >= 0}
First(I) == CHOOSE i \in I : \A j \in I : i <= j
Last(I)  == CHOOSE i \in I : \A j \in I : i >= j

\* C1: every package name processed has exactly one catalog entry, and its
\* version is greater than or equal to the version of every record of that
\* name processed so far.
C1_HighestVersion ==
    AllNamed =>
      /\ DOMAIN packages = SeenNames
      /\ \A n \in SeenNames :
            /\ Cardinality({i \in 1..Len(order) : order[i] = n}) = 1
            /\ S_package \in DOMAIN packages[n].f /\ packages[n].f[S_package].s = n
            /\ \A i \in Occurrences(n) :
                  version_compare(VersionOf(packages[n]), VersionOf(seen[i].rec)) >= 0

\* a greater version arrived after a lesser one under the same name
C1_Witness ==
    /\ AllNamed
    /\ \E i, j \in 1..Len(seen) :
          /\ i < j /\ seen[i].name = seen[j].name
          /\ version_compare(VersionOf(seen[j].rec), VersionOf(seen[i].rec)) > 0
    /\ \E i, j \in 1..Len(seen) :
          /\ i < j /\ seen[i].name = seen[j].name
          /\ version_compare(VersionOf(seen[j].rec), VersionOf(seen[i].rec)) < 0

-----------------------------------------------------------------------------
(* SpecSources: the source phase on a list file of up to MaxLines lines,   *)
(* with every combination of cache file and server answer for the two      *)
(* indexes the lines name.                                                 *)

MaxLines == 2

\* "deb http://h r m c"
D_two == <<"d", "e", "b", " ", "h", "t", "t", "p", ":", "/", "/", "h", " ", "r", " ", "m", " ", "c">>
\* "deb [o] http://h r c #x"
D_opt == <<"d", "e", "b", " ", "[", "o", "]", " ", "h", "t", "t", "p", ":", "/", "/", "h", " ", "r", " ", "c", " ", "#", "x">>
\* "deb http://h r c": what get_deb_lines of aptparser.py makes of D_opt
D_optPlain == <<"d", "e", "b", " ", "h", "t", "t", "p", ":", "/", "/", "h", " ", "r", " ", "c">>
\* "deb [o] http://h r c": what get_deb_lines of apt-mirror.py makes of D_opt
D_optKept == <<"d", "e", "b", " ", "[", "o", "]", " ", "h", "t", "t", "p", ":", "/", "/", "h", " ", "r", " ", "c">>
\* "deb-src http://h r m"
D_src == <<"d", "e", "b", "-", "s", "r", "c", " ", "h", "t", "t", "p", ":", "/", "/", "h", " ", "r", " ", "m">>
\* "not-a-real-entry"
D_junk == <<"n", "o", "t", "-", "a", "-", "r", "e", "a", "l", "-", "e", "n", "t", "r", "y">>
\* "deb http://h": begins like a declaration and does not match the grammar
D_short == <<"d", "e", "b", " ", "h", "t", "t", "p", ":", "/", "/", "h">>

SourceLines == {D_two, D_opt, D_src, D_junk, D_short}

\* the index of component m, and its file in the cache directory
Url_m  == <<"h", "t", "t", "p", ":", "/", "/", "h", "/", "d", "i", "s", "t", "s", "/", "r", "/", "m", "/", "b", "i", "n", "a", "r", "y", "-", "a", "m", "d", "6", "4", "/", "P", "a", "c", "k", "a", "g", "e", "s", ".", "g", "z">>
File_m == <<"/", "v", "a", "r", "/", "l", "i", "b", "/", "a", "p", "t", "/", "l", "i", "s", "t", "s", "/", "h", "_", "d", "i", "s", "t", "s", "_", "r", "_", "m", "_", "b", "i", "n", "a", "r", "y", "-", "a", "m", "d", "6", "4", "_", "P", "a", "c", "k", "a", "g", "e", "s">>
\* the index of component c, and its file in the cache directory
Url_c  == <<"h", "t", "t", "p", ":", "/", "/", "h", "/", "d", "i", "s", "t", "s", "/", "r", "/", "c", "/", "b", "i", "n", "a", "r", "y", "-", "a", "m", "d", "6", "4", "/", "P", "a", "c", "k", "a", "g", "e", "s", ".", "g", "z">>
File_c == <<"/", "v", "a", "r", "/", "l", "i", "b", "/", "a", "p", "t", "/", "l", "i", "s", "t", "s", "/", "h", "_", "d", "i", "s", "t", "s", "_", "r", "_", "c", "_", "b", "i", "n", "a", "r", "y", "-", "a", "m", "d", "6", "4", "_", "P", "a", "c", "k", "a", "g", "e", "s">>

\* "Package: a\nVersion: 1\n"
T_cached == <<"P", "a", "c", "k", "a", "g", "e", ":", " ", "a", "\n", "V", "e", "r", "s", "i", "o", "n", ":", " ", "1", "\n">>
\* "Package: a\nVersion: 2\n\nPackage: b\nVersion: 1\n"
T_served == <<"P", "a", "c", "k", "a", "g", "e", ":", " ", "a", "\n", "V", "e", "r", "s", "i", "o", "n", ":", " ", "2", "\n", "\n", "P", "a", "c", "k", "a", "g", "e", ":", " ", "b", "\n", "V", "e", "r", "s", "i", "o", "n", ":", " ", "1", "\n">>

\* an index answered with status 200 and a gzip body
Ok200(text) == [status |-> 200, gz |-> TRUE, text |-> text, length |-> TRUE, whole |-> TRUE,
                bytes |-> Len(text)]
\* status 200 and a body that is not gzip
NotGzip     == [status |-> 200, gz |-> FALSE, text |-> <<>>, length |-> TRUE, whole |-> TRUE,
                bytes |-> 3]
\* status 404 and the error page
NotFound    == [status |-> 404, gz |-> FALSE, text |-> <<>>, length |-> TRUE, whole |-> TRUE,
                bytes |-> 3]

\* a function from two keys
Pair(k1, v1, k2, v2) == [k \in {k1, k2} |-> IF k = k1 THEN v1 ELSE v2]
\* the files of a cache directory: those of the two that are present
CacheOf(hasM, hasC) ==
    [k \in ((IF hasM THEN {File_m} ELSE {}) \cup (IF hasC THEN {File_c} ELSE {})) |-> T_cached]

InitRun ==
    /\ InitCommon
    /\ pc = "start"
    /\ deb_lines = <<>>
    /\ di = 1
    /\ ci = 1
    /\ release_data = <<>>
    /\ package_data = <<>>
    /\ pi = 1
    /\ io = <<>>

InitSources ==
    /\ InitRun
    /\ list_file \in SeqsUpTo(SourceLines, MaxLines)
    /\ \E hasM, hasC \in BOOLEAN : cache = CacheOf(hasM, hasC)
    /\ \E rm, rc \in {Ok200(T_served), NotGzip, NotFound} : remote = Pair(Url_m, rm, Url_c, rc)
    /\ args = NoArgs(prog)
    /\ fs = <<>>
    /\ snapshot = NoSnapshot
    /\ atStart = [fs |-> fs, snapshot |-> snapshot]

NextSources ==
    \/ GetDebLines
    \/ SkipDebLine
    \/ FailDebLine
    \/ FetchComponent
    \/ DebLineDone
    \/ LinesDone

SpecSources == InitSources /\ [][NextSources]_vars

-----------------------------------------------------------------------------
(* Claims about the source phase, checked under SpecSources.  What a line  *)
(* of SourceLines declares is written out here, not taken from the parser. *)

\* the components a valid deb line of SourceLines declares, in order
DeclaredComponents(line) ==
    IF line \in {D_two} THEN <<"m", "c">>
    ELSE IF line \in {D_opt, D_optPlain} THEN <<"c">>
    ELSE <<>>

IsDebSrcLine(line) == line = D_src
IsMalformedLine(line) == line \in {D_junk, D_short}
IsValidDebLine(line) == line \in {D_two, D_opt, D_optPlain}

\* the deb line as get_deb_lines of aptparser.py hands it on
Normalized(line) == IF line = D_opt THEN D_optPlain ELSE line

IndexUrl(c)  == IF c = "m" THEN Url_m ELSE Url_c
IndexFile(c) == IF c = "m" THEN File_m ELSE File_c

\* the one operation that serves component c of `line`
ExpectedOp(line, c) ==
    IF IndexFile(c) \in DOMAIN cache
    THEN [op |-> "cache", at |-> IndexFile(c), line |-> Normalized(line)]
    ELSE [op |-> "GET", at |-> IndexUrl(c), line |-> Normalized(line)]

ExpectedOps(line) ==
    [i \in 1..Len(DeclaredComponents(line)) |-> ExpectedOp(line, DeclaredComponents(line)[i])]

\* "Package: a\nVersion: 1\nuri: http://h"
St_cached == <<"P", "a", "c", "k", "a", "g", "e", ":", " ", "a", "\n", "V", "e", "r", "s", "i", "o", "n", ":", " ", "1", "\n", "u", "r", "i", ":", " ", "h", "t", "t", "p", ":", "/", "/", "h">>
\* "Package: a\nVersion: 2\nuri: http://h"
St_served1 == <<"P", "a", "c", "k", "a", "g", "e", ":", " ", "a", "\n", "V", "e", "r", "s", "i", "o", "n", ":", " ", "2", "\n", "u", "r", "i", ":", " ", "h", "t", "t", "p", ":", "/", "/", "h">>
\* "Package: b\nVersion: 1\nuri: http://h"
St_served2 == <<"P", "a", "c", "k", "a", "g", "e", ":", " ", "b", "\n", "V", "e", "r", "s", "i", "o", "n", ":", " ", "1", "\n", "u", "r", "i", ":", " ", "h", "t", "t", "p", ":", "/", "/", "h">>

\* the stanzas the index of component c holds
ExpectedStanzas(c) ==
    IF IndexFile(c) \in DOMAIN cache THEN <<St_cached>> ELSE <<St_served1, St_served2>>

RECURSIVE ExpectedData(_)
ExpectedData(cs) ==
    IF cs = <<>> THEN <<>> ELSE ExpectedStanzas(cs[1]) \o ExpectedData(Tail(cs))

RECURSIVE OpsOfLines(_)
\* the operations of the lines ls, in order
OpsOfLines(ls) == IF ls = <<>> THEN <<>> ELSE ExpectedOps(ls[1]) \o OpsOfLines(Tail(ls))

RECURSIVE DataOfLines(_)
DataOfLines(ls) ==
    IF ls = <<>> THEN <<>>
    ELSE ExpectedData(DeclaredComponents(ls[1])) \o DataOfLines(Tail(ls))

IsPrefix(s, q) == Len(s) <= Len(q) /\ SubSeq(q, 1, Len(s)) = s

NotDebSrc(l) == ~IsDebSrcLine(l)
NotMalformed(l) == ~IsMalformedLine(l)
WithoutDebSrc == SelectSeq(list_file, NotDebSrc)
WithoutMalformed == SelectSeq(list_file, NotMalformed)

\* an index fetch failed: the last operation is a GET the server did not
\* answer with a gzip body and status 200
FetchFailed ==
    /\ err \in {"ValueError", "BadGzipFile"}
    /\ io # <<>>
    /\ io[Len(io)].op = "GET"
    /\ remote[io[Len(io)].at] \in {NotFound, NotGzip}

\* C4 (aptparser.py): a deb-src line is dropped: it is never handed to the
\* line loop, no index operation serves it, the operations and stanzas of a
\* finished source phase are those of the list without its deb-src lines,
\* and a run that ends early ends because of an index fetch that failed or
\* because the list without its deb-src lines declares nothing.
C4_DebSrcSkipped ==
    prog = "aptparser" =>
      /\ \A i \in 1..Len(deb_lines) : ~StartsWith(deb_lines[i], S_deb_src)
      /\ \A i \in 1..Len(io) : ~StartsWith(io[i].line, S_deb_src)
      /\ IsPrefix(io, OpsOfLines(WithoutDebSrc))
      /\ pc = "stanzas" =>
            /\ io = OpsOfLines(WithoutDebSrc)
            /\ package_data = DataOfLines(WithoutDebSrc)
      /\ pc = "aborted" =>
            \/ FetchFailed
            \/ /\ err = "InvalidListException"
               /\ \A i \in 1..Len(WithoutDebSrc) : WithoutDebSrc[i] = D_junk

\* a list with a deb-src line and a deb line went through the source phase
C4_Witness ==
    /\ prog = "aptparser"
    /\ pc = "stanzas"
    /\ \E i \in 1..Len(list_file) : list_file[i] = D_src
    /\ io # <<>>

\* C5 (aptparser.py): a line that fails the grammar is skipped: it ends no
\* run, and the valid deb lines before and after it are processed in input
\* order, one operation per declared component.
C5_MalformedSkipped ==
    prog = "aptparser" =>
      /\ IsPrefix(io, OpsOfLines(WithoutMalformed))
      /\ pc = "stanzas" => io = OpsOfLines(WithoutMalformed)
      /\ (pc = "lines" /\ di <= Len(deb_lines) /\ IsMalformedLine(deb_lines[di])) =>
            io = OpsOfLines(SubSeq(deb_lines, 1, di - 1))
      /\ pc = "aborted" =>
            \/ FetchFailed /\ IsValidDebLine(deb_lines[di])
            \/ /\ err = "InvalidListException"
               /\ \A i \in 1..Len(list_file) : ~IsValidDebLine(list_file[i])

\* a malformed line came before a valid deb line, whose indexes were read
C5_Witness ==
    /\ prog = "aptparser"
    /\ pc = "stanzas"
    /\ \E i, j \in 1..Len(list_file) :
          i < j /\ list_file[i] = D_short /\ IsValidDebLine(list_file[j])
    /\ io # <<>>
    /\ io[Len(io)].line = Normalized(list_file[Len(list_file)])

ServesDebLine(o) == IsValidDebLine(o.line)

\* the deb lines whose processing has returned
Returned == SubSeq(deb_lines, 1, di - 1)

\* C6: a valid deb line with k components whose processing returns has
\* performed exactly k index operations, one per component in declared
\* order, each a read of the cache file when it exists and one GET of the
\* index url when it does not, and its stanzas are appended as one block.
C6_OnePerComponent ==
    pc \in {"lines", "stanzas"} =>
      /\ SelectSeq(io, ServesDebLine) =
            OpsOfLines(SelectSeq(Returned, IsValidDebLine)) \o
              (IF pc = "lines" /\ di <= Len(deb_lines) /\ IsValidDebLine(deb_lines[di])
               THEN SubSeq(ExpectedOps(deb_lines[di]), 1, ci - 1) ELSE <<>>)
      /\ (\A i \in 1..Len(deb_lines) : ~IsDebSrcLine(deb_lines[i])) =>
            package_data = DataOfLines(Returned)
      /\ \A i \in 1..Len(io) :
            /\ io[i].op = "cache" => io[i].at \in {File_m, File_c} /\ io[i].at \in DOMAIN cache
            /\ io[i].op = "GET" =>
                  /\ io[i].at \in {Url_m, Url_c}
                  /\ IndexFile(IF io[i].at = Url_m THEN "m" ELSE "c") \notin DOMAIN cache

\* "deb http://h r m c" returned after one cache read and one GET
C6_Witness ==
    /\ pc = "stanzas"
    /\ list_file = <<D_two>>
    /\ Len(io) = 2
    /\ io[1].op = "cache" /\ io[2].op = "GET"
    /\ Len(package_data) = 3

-----------------------------------------------------------------------------
(* Whole runs: the list, the indexes, the package files, the options.      *)

\* "Package: a\nVersion: 1\nSize: 2\nFilename: f1\n"
T_m == <<"P", "a", "c", "k", "a", "g", "e", ":", " ", "a", "\n", "V", "e", "r", "s", "i", "o", "n", ":", " ", "1", "\n", "S", "i", "z", "e", ":", " ", "2", "\n", "F", "i", "l", "e", "n", "a", "m", "e", ":", " ", "f", "1", "\n">>
\* "Package: b\nVersion: 1\nSize: 2\nFilename: f2\n"
T_c == <<"P", "a", "c", "k", "a", "g", "e", ":", " ", "b", "\n", "V", "e", "r", "s", "i", "o", "n", ":", " ", "1", "\n", "S", "i", "z", "e", ":", " ", "2", "\n", "F", "i", "l", "e", "n", "a", "m", "e", ":", " ", "f", "2", "\n">>
\* "Package: c\nbad\n"
T_bad == <<"P", "a", "c", "k", "a", "g", "e", ":", " ", "c", "\n", "b", "a", "d", "\n">>

\* "Package: b\nVersion: 1\nSize: 2\n"
T_nofile == <<"P", "a", "c", "k", "a", "g", "e", ":", " ", "b", "\n", "V", "e", "r", "s", "i", "o", "n", ":", " ", "1", "\n", "S", "i", "z", "e", ":", " ", "2", "\n">>

\* the package files of the two indexes
Url_f1 == <<"h", "t", "t", "p", ":", "/", "/", "h", "/", "f", "1">>
Url_f2 == <<"h", "t", "t", "p", ":", "/", "/", "h", "/", "f", "2">>
F_f1 == <<"f", "1">>
F_f2 == <<"f", "2">>

\* what the server answers for a package file of two bytes
ServedWhole == [status |-> 200, gz |-> FALSE, text |-> <<>>, length |-> TRUE, whole |-> TRUE,
                bytes |-> 2]
NoLength    == [ServedWhole EXCEPT !.length = FALSE]
Interrupted == [ServedWhole EXCEPT !.whole = FALSE]

\* the download directory holds nothing, or what an interrupted run left
PartFile(p) == [t \in {OutputDir(p) \o S_slash \o F_f1} |-> File(1, 200)]

Init ==
    /\ InitRun
    /\ list_file \in {<<>>, <<D_two>>, <<D_short, D_two>>}
    /\ cache = <<>>
    /\ \E rm \in {Ok200(T_m), NotFound}, rc \in {Ok200(T_c), Ok200(T_bad), Ok200(T_nofile)},
          r1 \in {ServedWhole, NotFound, NoLength, Interrupted} :
          remote = [u \in {Url_m, Url_c, Url_f1, Url_f2} |->
                      IF u = Url_m THEN rm ELSE IF u = Url_c THEN rc
                      ELSE IF u = Url_f1 THEN r1 ELSE ServedWhole]
    /\ args \in ArgsOf(prog)
    /\ fs \in {<<>>, PartFile(prog)}
    /\ snapshot = Opened(args, NoSnapshot)
    /\ atStart = [fs |-> fs, snapshot |-> snapshot]

Next ==
    \/ GetDebLines
    \/ LoadSnapshot
    \/ SkipDebLine
    \/ FailDebLine
    \/ FetchComponent
    \/ DebLineDone
    \/ LinesDone
    \/ CatalogStep
    \/ CatalogDone
    \/ Summary
    \/ DownloadStep
    \/ DownloadDone
    \/ PrintTable
    \/ Export
    \/ Restart

Spec == Init /\ [][Next]_vars

-----------------------------------------------------------------------------
(* The download loop.                                                      *)

\* a request of the download loop in the I/O log
IsDownload(o) == o.op = "GET" /\ o.line = <<>>

\* <uri>/<filename> and <output_dir>/<filename> of the entry of name n
UrlOf(n)    == packages[n].f[S_uri].s \o <<"/">> \o packages[n].f[S_filename].s
TargetOf(n) == OutputDir(prog) \o <<"/">> \o packages[n].f[S_filename].s

\* the target of n exists in `files` with the size the record gives
SizeMatching(files, n) ==
    /\ S_filename \in DOMAIN packages[n].f
    /\ TargetOf(n) \in DOMAIN files
    /\ files[TargetOf(n)].size = packages[n].f[S_size].n

InDownloadRun == args.download /\ pc \in {"download", "table", "export", "done"}

\* the package the loop visits next has a uri and a filename
Visiting ==
    /\ pc = "download"
    /\ dl # <<>>
    /\ S_uri \in DOMAIN packages[Head(dl)].f
    /\ S_filename \in DOMAIN packages[Head(dl)].f

\* a visit either skips a size-matching target or requests the package once
VisitSkipsOrGets ==
    Visiting =>
        IF SizeMatching(fs, Head(dl))
        THEN io' = io /\ fs' = fs /\ dl' = Tail(dl) /\ pc' = pc
        ELSE io' = Append(io, [op |-> "GET", at |-> UrlOf(Head(dl)), line |-> <<>>])

\* a download run that found every target size-matching requests nothing
MatchingRunIsSilent ==
    (InDownloadRun /\ \A n \in DOMAIN packages : SizeMatching(atStart.fs, n))
        => /\ \A i \in 1..Len(io) : ~IsDownload(io[i])
           /\ fs = atStart.fs

(* C7: in the download phase a package whose target exists with the size   *)
(* of the record is skipped with no request and its file is unchanged, so  *)
(* a download run in which every target is size-matching issues no         *)
(* request; a package whose target is missing or of another size gets     *)
(* exactly one GET of <uri>/<filename>.                                    *)
C7_SkipOrOneGet == [][VisitSkipsOrGets]_vars /\ []MatchingRunIsSilent

\* a second run has gone through a catalog whose targets all matched, and
\* the run before it had to request a package whose target was a partial file
C7_Witness ==
    /\ run = 2
    /\ pc = "done"
    /\ args.download
    /\ Len(order) = 2
    /\ \A n \in DOMAIN packages : SizeMatching(atStart.fs, n)
    /\ io # <<>>
    /\ \A i \in 1..Len(io) : ~IsDownload(io[i])

(* C9: a non-200 response to the request of a package body fails that      *)
(* package only: nothing of the error response is stored as the target     *)
(* file, files downloaded before stay as they are, and the loop goes on.   *)
C9_AsStated ==
    /\ \A f \in DOMAIN fs : fs[f].status \in {0, 200}
    /\ (pc = "aborted" /\ io # <<>> /\ IsDownload(io[Len(io)]))
          => Response(io[Len(io)].at).status = 200

-----------------------------------------------------------------------------
(* The snapshot.                                                           *)

\* the export writes a snapshot whose import has, for every name, the
\* fields of the entry and no other
ExportKeepsFields ==
    (pc = "export" /\ args.output_file /\ pc' = "done")
        => /\ DOMAIN Loaded(snapshot') = DOMAIN packages
           /\ \A n \in DOMAIN packages : Loaded(snapshot')[n].f = packages[n].f

\* a run that imported a snapshot goes on as a run on the original does
ImportIsUsable ==
    (args.input_file /\ atStart.snapshot.state = "json" /\ atStart.snapshot.order # <<>>)
        => pc # "aborted"

(* C8: exporting the catalog with --output-file and importing it with      *)
(* --input-file gives a catalog with, for every package name, the fields   *)
(* of the original (uri included) and no other, which the rest of the run  *)
(* uses in place of the original.                                          *)
C8_AsStated == [][ExportKeepsFields]_vars /\ []ImportIsUsable

-----------------------------------------------------------------------------
(* Fatal errors.                                                           *)

\* the index requests of the I/O log that the server refused
Refused == {i \in 1..Len(io) : io[i].op = "GET" /\ io[i].line # <<>>
                                /\ Response(io[i].at).status # 200}

\* the header lines of a stanza: the first line, and every line that does
\* not begin with a space
HasBadHeader(stanza) ==
    LET ls == Split(StripNL(stanza), NL)
    IN  \E i \in 1..Len(ls) :
           /\ i = 1 \/ ls[i][1] # " "
           /\ \A j \in 1..(Len(ls[i]) - 1) : <<ls[i][j], ls[i][j + 1]>> # <<":", " ">>

BadStanzas == {j \in 1..Len(package_data) : HasBadHeader(package_data[j])}

\* the run has produced nothing: no table, no snapshot, no request of a
\* package, no file
NothingProduced ==
    /\ table.printed = <<>>
    /\ snapshot = atStart.snapshot
    /\ fs = atStart.fs
    /\ \A i \in 1..Len(io) : ~IsDownload(io[i])

(* C10: once the fetch of an index is answered with a status other than    *)
(* 200, or a stanza has a header line without ": ", the run aborts: no     *)
(* further index is fetched, no stanza is added to the catalog, no         *)
(* snapshot or table is produced and no package is requested.              *)
C10_FatalAborts ==
    /\ Refused # {} =>
          /\ pc = "aborted"
          /\ err = "ValueError"
          /\ Refused = {Len(io)}
          /\ packages = <<>>
          /\ seen = <<>>
          /\ NothingProduced
    /\ \A j \in BadStanzas :
          /\ pc \in {"lines", "stanzas", "aborted"}
          /\ pi <= j
          /\ Len(seen) < j
          /\ DOMAIN packages = {seen[i].name : i \in 1..Len(seen)}
          /\ NothingProduced

\* a run asked to download, print and export stopped at a stanza with a
\* header line without ": ", after a stanza had entered the catalog
C10_Witness ==
    /\ pc = "aborted"
    /\ err = "ValueError"
    /\ pi \in BadStanzas
    /\ seen # <<>>
    /\ args.download /\ args.print_table /\ args.output_file

-----------------------------------------------------------------------------
(* Records without a name.                                                 *)

(* C11: a stanza without the package field is rejected and neither adds    *)
(* nor replaces a catalog entry, so every catalog entry stored under the   *)
(* key n is a record whose package field is n.                             *)
C11_AsStated ==
    /\ \A i \in 1..Len(seen) : S_package \in DOMAIN seen[i].rec.f
    /\ \A n \in DOMAIN packages :
          /\ S_package \in DOMAIN packages[n].f
          /\ packages[n].f[S_package] = StrV(n)

====
